---- MODULE Spec2Model ----
(***************************************************************************)
(* Review-to-PR streaming workflow of packages/accelos:                    *)
(*   loadReviewStep -> claudeCodeAnalysisStep -> finalizeStep.             *)
(* The workflow file holds two definitions of the workflow.  variant = 1   *)
(* is the first one (one Claude Code execution for all findings, git and   *)
(* gh driven through execSync); variant = 2 is the second one (one         *)
(* execution per category, `git add .` without a status check, placeholder *)
(* pull-request URL).                                                      *)
(***************************************************************************)
EXTENDS Integers, Sequences, FiniteSets, TLC

VARIABLES
  variant,                \* which definition of the workflow runs
  entryPoint,             \* "workflow": run started directly; "tool": through
                          \* prCreationWorkflowTool
  optionsOmitted,         \* the request names the review id only
  reviewAssessmentId,     \* inputData.reviewAssessmentId
  dryRun,                 \* inputData.dryRun
  autoCommit,             \* inputData.autoCommit
  createPR,               \* inputData.createPR
  pc,                     \* position of the run
  loadSuccess,            \* loadReviewStep's success field
  loaderCalls,            \* number of reviewLoaderTool.execute calls
  findings,               \* reviewData.findings
  pending,                \* buckets the dispatcher loop has not processed yet
  inFlight,               \* claudeCodeTool.execute calls awaiting their result
  invocations,            \* claudeCodeTool.execute calls made, in order
  combinedAnalysisResult, \* blocks appended to combinedAnalysisResult
  allFixesProposed,       \* allFixesProposed / fixesProposed
  analysisSuccess,        \* claudeCodeAnalysisStep's success field
  treeChanged,            \* the working tree differs from HEAD
  cmds,                   \* external commands run by execSync, with outcome
  branchName,             \* finalizeStep's branchName (text parts)
  prUrl,                  \* finalizeStep's prUrl
  errors,                 \* finalizeStep's errors
  output,                 \* values returned by finalizeStep: none or one
  apiKeySet,              \* process.env.ANTHROPIC_API_KEY is set
  debug,                  \* options.debug of the streaming tool
  toolPc,                 \* position of claudeCodeStreamingTool.execute
  queryStarted,           \* query() has been called
  consumed,               \* messages the for-await loop has taken
  result,                 \* execute's result (text parts)
  turnsUsed,              \* execute's turnsUsed
  toolsCalled,            \* execute's toolsCalled
  hasErrors,              \* execute's hasErrors
  currentTurn,            \* execute's currentTurn
  emitted,                \* events handed to safeWrite, in order
  retained,               \* events safeWrite keeps for an observer
  streamingEventsEmitted, \* execute's streamingEventsEmitted
  toolReturn,             \* values returned by execute: none or one
  toolThrown,             \* message of the error raised by execute, if any
  wrapperPc,              \* position of prCreationWorkflowTool.execute
  writer,                 \* the agent writer the workflow stream is piped to
  wrapperOutput,          \* values returned by prCreationWorkflowTool.execute
  autoSave,               \* GuardrailStore.autoSave
  guardrails,             \* GuardrailStore.guardrails: updated_at per id
  fileContent,            \* what the guardrails file holds
  storeOps                \* add/update/delete calls started, in order

vars == <<variant, entryPoint, optionsOmitted, wrapperPc, writer,
          wrapperOutput, reviewAssessmentId, dryRun, autoCommit, createPR, pc,
          loadSuccess, loaderCalls, findings, pending, inFlight, invocations,
          combinedAnalysisResult, allFixesProposed, analysisSuccess,
          treeChanged, cmds, branchName, prUrl, errors, output,
          apiKeySet, debug, toolPc, queryStarted, consumed, result,
          turnsUsed, toolsCalled, hasErrors, currentTurn, emitted, retained,
          streamingEventsEmitted, toolReturn, toolThrown,
          autoSave, guardrails, fileContent, storeOps>>

storeVars == <<autoSave, guardrails, fileContent, storeOps>>
inputVars == <<variant, entryPoint, optionsOmitted, reviewAssessmentId, dryRun,
               autoCommit, createPR>>
wrapperVars == <<wrapperPc, writer, wrapperOutput>>
loadVars == <<loadSuccess, loaderCalls, findings>>
analysisVars == <<pending, inFlight, invocations, combinedAnalysisResult,
                  allFixesProposed, analysisSuccess, treeChanged>>
gitVars == <<cmds, branchName, prUrl, errors>>
workflowVars == <<inputVars, pc, loadVars, analysisVars, gitVars, output,
                  wrapperVars>>
toolInputVars == <<apiKeySet, debug>>
toolLocals == <<result, turnsUsed, toolsCalled, hasErrors, currentTurn>>
toolVars == <<toolInputVars, toolPc, queryStarted, consumed, toolLocals,
              emitted, retained, streamingEventsEmitted, toolReturn,
              toolThrown>>

\* ---------------------------------------------------------------- bounds
MaxFindings == 3
MaxMessages == 3
MaxLongReview == 7
MaxStoreOps == 3

\* ------------------------------------------------------------- constants
None == "undefined"

\* branchName while it is undefined
NoBranch == <<>>

Variants == {1, 2}

ReviewIds == {"R1", "sse-streaming-test-demo"}

\* category values of the findings a stored review may carry; "" stands for
\* a finding whose category is absent or empty (both falsy), "1" for a
\* category spelled as a canonical array index, "constructor" for a category
\* that names a property every object literal inherits
Categories == {"security", "general", "", "1", "constructor"}

Range(s) == {s[i] : i \in 1..Len(s)}

SeqsUpTo(S, n) == UNION {[1..k -> S] : k \in 0..n}

\* findings of a stored review: the i-th finding recommends "rec<i>"
RecOf(i) == <<"rec", i>>

Finding(c, i) == [category |-> c, recommendation |-> RecOf(i)]

StoredFindings ==
  {[i \in 1..Len(cs) |-> Finding(cs[i], i)] : cs \in SeqsUpTo(Categories, MaxFindings)}

\* findings of a stored review longer than MaxFindings: one category, so
\* that the fix list outgrows what the commit message lists
LongReviewFindings ==
  {[i \in 1..k |-> Finding("security", i)] : k \in (MaxFindings + 1)..MaxLongReview}

\* the record loadReviewStep builds for a demo review id
MockFindings ==
  << [category |-> "security",    recommendation |-> <<"rec", 1>>],
     [category |-> "performance", recommendation |-> <<"rec", 2>>],
     [category |-> "security",    recommendation |-> <<"rec", 3>>],
     [category |-> "performance", recommendation |-> <<"rec", 4>>],
     [category |-> "testing",     recommendation |-> <<"rec", 5>>] >>

\* no review id taken for a demo id
StartsWithSseStreamingTestNever(id) == FALSE

\* reviewAssessmentId.startsWith('sse-streaming-test-')
StartsWithSseStreamingTest(id) == id = "sse-streaming-test-demo"

\* claudeCodeStreamingTool is not running
ToolIdle ==
  /\ apiKeySet = FALSE
  /\ debug = FALSE
  /\ toolPc = "idle"
  /\ queryStarted = FALSE
  /\ consumed = <<>>
  /\ result = <<>>
  /\ turnsUsed = 0
  /\ toolsCalled = <<>>
  /\ hasErrors = FALSE
  /\ currentTurn = 0
  /\ emitted = <<>>
  /\ retained = <<>>
  /\ streamingEventsEmitted = 0
  /\ toolReturn = <<>>
  /\ toolThrown = <<>>

\* ids of the guardrails the store may hold
GuardrailIds == {"G1", "G2"}

\* updated_at of a guardrail that is not in the Map
Absent == 0

\* the GuardrailStore singleton has not been loaded
StoreIdle ==
  /\ autoSave = FALSE
  /\ guardrails = [id \in GuardrailIds |-> Absent]
  /\ fileContent = [id \in GuardrailIds |-> Absent]
  /\ storeOps = <<>>

\* ------------------------------------------------------------------ Init
\* defaults of reviewToPRStreamingInputSchema
WorkflowSchemaDefaults ==
  [dryRun |-> TRUE, autoCommit |-> FALSE, createPR |-> FALSE]

\* defaults of prCreationWorkflowTool.inputSchema
ToolSchemaDefaults ==
  [dryRun |-> FALSE, autoCommit |-> TRUE, createPR |-> TRUE]

SchemaDefaults(entry) ==
  IF entry = "tool" THEN ToolSchemaDefaults ELSE WorkflowSchemaDefaults

\* the request parsed by the schema of the entry point: omitted fields take
\* the schema's defaults
ParsedInput(entry) ==
  /\ reviewAssessmentId \in ReviewIds
  /\ optionsOmitted \in BOOLEAN
  /\ IF optionsOmitted
     THEN /\ dryRun = SchemaDefaults(entry).dryRun
          /\ autoCommit = SchemaDefaults(entry).autoCommit
          /\ createPR = SchemaDefaults(entry).createPR
     ELSE /\ dryRun \in BOOLEAN
          /\ autoCommit \in BOOLEAN
          /\ createPR \in BOOLEAN

\* prCreationWorkflowTool is not running
WrapperIdle ==
  /\ wrapperPc = "idle"
  /\ writer = None
  /\ wrapperOutput = <<>>

\* nothing of the workflow run has happened yet
RunNotStarted ==
  /\ loadSuccess = FALSE
  /\ loaderCalls = 0
  /\ findings = <<>>
  /\ pending = <<>>
  /\ inFlight = 0
  /\ invocations = <<>>
  /\ combinedAnalysisResult = <<>>
  /\ allFixesProposed = <<>>
  /\ analysisSuccess = FALSE
  /\ treeChanged = FALSE
  /\ cmds = <<>>
  /\ branchName = NoBranch
  /\ prUrl = None
  /\ errors = <<>>
  /\ output = <<>>

Init ==
  /\ variant \in Variants
  /\ entryPoint = "workflow"
  /\ ParsedInput(entryPoint)
  /\ WrapperIdle
  /\ pc = "load"
  /\ loadSuccess = FALSE
  /\ loaderCalls = 0
  /\ findings = <<>>
  /\ pending = <<>>
  /\ inFlight = 0
  /\ invocations = <<>>
  /\ combinedAnalysisResult = <<>>
  /\ allFixesProposed = <<>>
  /\ analysisSuccess = FALSE
  /\ treeChanged = FALSE
  /\ cmds = <<>>
  /\ branchName = NoBranch
  /\ prUrl = None
  /\ errors = <<>>
  /\ output = <<>>
  /\ ToolIdle
  /\ StoreIdle

\* ------------------------------------------------------- loadReviewStep
\* demo review id: mock data, the loader is not called
LoadMock ==
  /\ pc = "load"
  /\ StartsWithSseStreamingTest(reviewAssessmentId)
  /\ findings' = MockFindings
  /\ loadSuccess' = TRUE
  /\ pc' = "analysis"
  /\ UNCHANGED <<storeVars, toolVars, wrapperVars, inputVars, loaderCalls, analysisVars, gitVars, output>>

\* the loader returns the review: its findings become reviewData.findings
LoadFound ==
  /\ pc = "load"
  /\ ~StartsWithSseStreamingTest(reviewAssessmentId)
  /\ \E fs \in StoredFindings \cup LongReviewFindings : findings' = fs
  /\ loaderCalls' = loaderCalls + 1
  /\ loadSuccess' = TRUE
  /\ pc' = "analysis"
  /\ UNCHANGED <<storeVars, toolVars, wrapperVars, inputVars, analysisVars, gitVars, output>>

\* a placeholder record that still carries a finding
PlaceholderFindingsStale == <<Finding("security", 1)>>

\* findings of the placeholder record the catch block returns
PlaceholderFindings == <<>>

\* the loader throws, reports failure, or has no review of that id: the
\* catch block returns the placeholder record
LoadFailed ==
  /\ pc = "load"
  /\ ~StartsWithSseStreamingTest(reviewAssessmentId)
  /\ findings' = PlaceholderFindings
  /\ loaderCalls' = loaderCalls + 1
  /\ loadSuccess' = FALSE
  /\ pc' = "analysis"
  /\ UNCHANGED <<storeVars, toolVars, wrapperVars, inputVars, analysisVars, gitVars, output>>

\* ----------------------------------------------- claudeCodeAnalysisStep
\* the category used as it comes, without a default
CategoryKeyWithoutDefault(f) == f.category

\* const category = finding.category || 'general'
CategoryKey(f) == IF f.category = "" THEN "general" ELSE f.category

\* {}[k] is already truthy for a property inherited from Object.prototype
InheritedProperty(k) == k \in {"constructor"}

\* the reduce callback calls acc[category].push on the inherited value
GroupingThrows(fs) == \E i \in 1..Len(fs) : InheritedProperty(CategoryKey(fs[i]))

\* keys of findingsByCategory in the order the reduce creates them
RECURSIVE InsertionKeys(_)
InsertionKeys(fs) ==
  IF fs = <<>> THEN <<>>
  ELSE LET init == InsertionKeys(SubSeq(fs, 1, Len(fs) - 1))
           k == CategoryKey(fs[Len(fs)])
       IN IF k \in Range(init) THEN init ELSE Append(init, k)

\* value of a key that is a canonical array index, -1 for any other key
ArrayIndex(k) == CASE k = "1" -> 1 [] k = "2" -> 2 [] OTHER -> -1

RECURSIVE AscendingIndexKeys(_)
AscendingIndexKeys(S) ==
  IF S = {} THEN <<>>
  ELSE LET m == CHOOSE k \in S : \A j \in S : ArrayIndex(k) <= ArrayIndex(j)
       IN <<m>> \o AscendingIndexKeys(S \ {m})

\* Object.entries: array-index keys ascending, then the other keys in
\* creation order
ObjectEntriesKeys(keys) ==
  AscendingIndexKeys({k \in Range(keys) : ArrayIndex(k) >= 0})
    \o SelectSeq(keys, LAMBDA k : ArrayIndex(k) < 0)

FindingsOfCategory(fs, k) == SelectSeq(fs, LAMBDA f : CategoryKey(f) = k)

\* Object.entries(findingsByCategory)
FindingsByCategory(fs) ==
  LET keys == ObjectEntriesKeys(InsertionKeys(fs))
  IN [i \in 1..Len(keys) |->
        [category |-> keys[i], findings |-> FindingsOfCategory(fs, keys[i])]]

\* the executions the step is going to make: one per category in the
\* second definition, one for all findings (if any) in the first
Executions(fs) ==
  IF variant = 2 THEN FindingsByCategory(fs)
  ELSE IF Len(fs) > 0 THEN <<[category |-> None, findings |-> fs]>> ELSE <<>>

ToUpperCase(c) ==
  CASE c = "security" -> "SECURITY"
    [] c = "performance" -> "PERFORMANCE"
    [] c = "testing" -> "TESTING"
    [] c = "general" -> "GENERAL"
    [] OTHER -> c

MaxTurns == IF variant = 2 THEN 25 ELSE 200

\* edits accepted whatever the mode of the run
PermissionModeAlwaysEdits == "acceptEdits"

\* permissionMode: dryRun ? "plan" : "acceptEdits"
PermissionMode == IF dryRun THEN "plan" ELSE "acceptEdits"

\* what the prompt says about modifying files: taskInstruction of
\* generateGeneralPrompt, dryRunText of generateCategorySpecificPrompt
TaskInstruction ==
  IF variant = 2
    THEN IF dryRun
           THEN "IMPORTANT: This is a DRY RUN - provide recommendations and analysis only, do not modify any files."
           ELSE ""
    ELSE IF dryRun
           THEN "ANALYZE codebase and provide detailed recommendations - do not modify files."
           ELSE "IMPLEMENT each fix by making actual file changes. Search first, then modify files."

\* context handed to claudeCodeTool.execute for one bucket
ExecuteContext(b) ==
  [category |-> b.category,
   findings |-> b.findings,
   analyzeOnly |-> dryRun,
   instruction |-> TaskInstruction,
   maxTurns |-> MaxTurns,
   permissionMode |-> PermissionMode]

\* fixes extracted from the findings of one bucket
CategoryFixes(b) ==
  [i \in 1..Len(b.findings) |->
     IF variant = 2
       THEN <<b.category, ": ">> \o b.findings[i].recommendation
       ELSE b.findings[i].recommendation]

\* the fixes of a bucket put in front of the list
FixesAfterReturnPrepending(fixes, b) == CategoryFixes(b) \o fixes

\* fixes the step keeps from a bucket whose execution returned
FixesAfterReturn(fixes, b) == fixes \o CategoryFixes(b)

\* the fixes of a bucket extracted before its execution is awaited
FixesAfterThrowKeeping(fixes, b) == fixes \o CategoryFixes(b)

\* fixes the step keeps from a bucket whose execution threw
FixesAfterThrow(fixes, b) == fixes

\* text the step writes for a returned execution
ResultBlock(b, text) ==
  [label |-> IF variant = 2 THEN ToUpperCase(b.category) ELSE None,
   failed |-> FALSE,
   body |-> IF text = "" THEN "No result from Claude Code" ELSE text]

ErrorBlock(b) ==
  [label |-> IF variant = 2 THEN ToUpperCase(b.category) ELSE None,
   failed |-> TRUE,
   body |-> "Error: <message>"]

\* claudeResult.result values
AgentResults == {"<agent result>", ""}

\* the step starts; in the second definition the reduce throws on a category
\* naming an inherited property and the step fails
AnalysisStart ==
  /\ pc = "analysis"
  /\ IF variant = 2 /\ GroupingThrows(findings)
       THEN /\ pc' = "failed"
            /\ pending' = pending
       ELSE /\ pc' = "dispatch"
            /\ pending' = Executions(findings)
  /\ UNCHANGED <<storeVars, toolVars, wrapperVars, inputVars, loadVars, inFlight, invocations,
                 combinedAnalysisResult, allFixesProposed, analysisSuccess,
                 treeChanged, gitVars, output>>

\* the call is not awaited: the next one starts while it is in flight
MayInvokeUnawaited(position) == position \in {"dispatch", "invoking"}

\* the call is awaited: the next one starts once the step has the outcome
MayInvoke(position) == position = "dispatch"

\* await claudeCodeTool.execute(...) for the next bucket
InvokeStart ==
  /\ MayInvoke(pc)
  /\ pending # <<>>
  /\ invocations' = Append(invocations, ExecuteContext(Head(pending)))
  /\ inFlight' = inFlight + 1
  /\ pc' = "invoking"
  /\ UNCHANGED <<storeVars, toolVars, wrapperVars, inputVars, loadVars, pending, combinedAnalysisResult,
                 allFixesProposed, analysisSuccess, treeChanged, gitVars,
                 output>>

\* files the agent may have written before the execution ended
AgentWrote == IF dryRun THEN {FALSE} ELSE BOOLEAN

\* the execution returns a result (with or without hasErrors)
InvokeReturn ==
  /\ pc = "invoking"
  /\ \E text \in AgentResults :
       combinedAnalysisResult' =
         IF variant = 2
           THEN Append(combinedAnalysisResult, ResultBlock(Head(pending), text))
           ELSE <<ResultBlock(Head(pending), text)>>
  /\ \E wrote \in AgentWrote : treeChanged' = (treeChanged \/ wrote)
  /\ allFixesProposed' = FixesAfterReturn(allFixesProposed, Head(pending))
  /\ inFlight' = inFlight - 1
  /\ pending' = Tail(pending)
  /\ pc' = "dispatch"
  /\ UNCHANGED <<storeVars, toolVars, wrapperVars, inputVars, loadVars, invocations, analysisSuccess, gitVars,
                 output>>

\* one try block around the whole loop: a throw ends the loop
PendingAfterThrowAborting(p) == <<>>

\* the try block sits inside the loop body: the loop goes on with the next
\* bucket
PendingAfterThrow(p) == Tail(p)

\* the execution throws: the catch block records the error text
InvokeThrow ==
  /\ pc = "invoking"
  /\ combinedAnalysisResult' =
       IF variant = 2
         THEN Append(combinedAnalysisResult, ErrorBlock(Head(pending)))
         ELSE <<ErrorBlock(Head(pending))>>
  /\ \E wrote \in AgentWrote : treeChanged' = (treeChanged \/ wrote)
  /\ allFixesProposed' = FixesAfterThrow(allFixesProposed, Head(pending))
  /\ inFlight' = inFlight - 1
  /\ pending' = PendingAfterThrow(pending)
  /\ pc' = "dispatch"
  /\ UNCHANGED <<storeVars, toolVars, wrapperVars, inputVars, loadVars, invocations, analysisSuccess, gitVars,
                 output>>

\* success reported only when no execution failed
AnalysisSuccessNoFailure(fixes, blocks) ==
  \A i \in 1..Len(blocks) : ~blocks[i].failed

\* success: allFixesProposed.length > 0
AnalysisSuccess(fixes, blocks) == Len(fixes) > 0

\* the step returns without waiting for the execution in flight
AnalysisMayReturnEarly(position, p) == position \in {"dispatch", "invoking"}

\* the step returns once the loop is over and every execution has settled
AnalysisMayReturn(position, p) == position = "dispatch" /\ p = <<>>

\* the step returns its record
AnalysisReturn ==
  /\ AnalysisMayReturn(pc, pending)
  /\ analysisSuccess' = AnalysisSuccess(allFixesProposed, combinedAnalysisResult)
  /\ pc' = "finalize"
  /\ UNCHANGED <<storeVars, toolVars, wrapperVars, inputVars, loadVars, pending, inFlight, invocations,
                 combinedAnalysisResult, allFixesProposed, treeChanged,
                 gitVars, output>>

\* --------------------------------------------------------- finalizeStep
\* a branch name under another prefix
BranchNameForOtherPrefix(id) == <<"review/", id, "-", "<Date.now()>">>

\* branchName = `fix/review-${reviewData.id}-${Date.now()}`
BranchNameFor(id) == <<"fix/review-", id, "-", "<Date.now()>">>

\* the git block entered on the fix count alone
DeliveryRunsIgnoringDryRun == Len(allFixesProposed) > 0

\* if (!dryRun && fixesProposed.length > 0)
DeliveryRuns == ~dryRun /\ Len(allFixesProposed) > 0

Min(a, b) == IF a < b THEN a ELSE b

\* number of fixes the commit message lists
CommitListLimit == 5

\* a commit message that lists every fix and has no remainder line
CommitMessageListingAll(id, fixes) ==
  [reviewId |-> id, listed |-> fixes, additionalFixes |-> <<>>]

\* the commit message: review id, the "- fix" lines of fixList, and the
\* text of additionalFixes (empty unless more than five fixes)
CommitMessage(id, fixes) ==
  [reviewId |-> id,
   listed |-> SubSeq(fixes, 1, Min(Len(fixes), CommitListLimit)),
   additionalFixes |->
     IF Len(fixes) > CommitListLimit
       THEN <<"... and ", Len(fixes) - CommitListLimit, " more fixes">>
       ELSE <<>>]

CommandLine(step) ==
  CASE step = "checkout" -> "git checkout -b"
    [] step = "status" -> "git status --porcelain"
    [] step = "add_u" -> "git add -u"
    [] step = "add_all" -> "git add . --ignore-errors"
    [] step = "add_fallback" -> "git add -u"
    [] step = "add_dot" -> "git add ."
    [] step = "commit" -> "git commit -m"
    [] step = "push" -> "git push -u origin"
    [] step = "pr" -> "gh pr create"

CommandArg(step) ==
  CASE step \in {"checkout", "push"} -> branchName
    [] step = "commit" -> CommitMessage(reviewAssessmentId, allFixesProposed)
    [] OTHER -> None

\* one execSync call and its outcome
Executed(step, ok) ==
  [step |-> step, cmd |-> CommandLine(step), arg |-> CommandArg(step), ok |-> ok]

\* the staging block left out after the status check
AfterOkWithoutStaging(step) ==
  CASE step = "checkout" ->
         IF autoCommit THEN (IF variant = 1 THEN "status" ELSE "add_dot")
         ELSE "summary"
    [] step = "status" -> "commit"
    [] step = "add_u" -> "add_all"
    [] step \in {"add_all", "add_fallback", "add_dot"} -> "commit"
    [] step = "commit" -> "push"
    [] step = "push" -> IF createPR /\ variant = 1 THEN "pr" ELSE "summary"
    [] OTHER -> "summary"

\* where finalizeStep continues after a command that did not throw
AfterOk(step) ==
  CASE step = "checkout" ->
         IF autoCommit THEN (IF variant = 1 THEN "status" ELSE "add_dot")
         ELSE "summary"
    [] step = "status" -> "add_u"
    [] step = "add_u" -> "add_all"
    [] step \in {"add_all", "add_fallback", "add_dot"} -> "commit"
    [] step = "commit" -> "push"
    [] step = "push" -> IF createPR /\ variant = 1 THEN "pr" ELSE "summary"
    [] OTHER -> "summary"

\* the staging commands with no try of their own
InInnerTryNowhere(step) == FALSE

\* the two staging commands of the first definition sit in an inner try
InInnerTry(step) == step \in {"add_u", "add_all"}

\* every command wrapped in a catch of its own: the step goes on
OnThrowContinuing(step) ==
  CASE InInnerTry(step) -> "add_fallback"
    [] step = "checkout" ->
         IF autoCommit THEN (IF variant = 1 THEN "status" ELSE "add_dot")
         ELSE "summary"
    [] step = "status" -> "add_u"
    [] step \in {"add_fallback", "add_dot"} -> "commit"
    [] step = "commit" -> "push"
    [] step = "push" -> IF createPR /\ variant = 1 THEN "pr" ELSE "summary"
    [] OTHER -> "summary"

\* where finalizeStep continues after a command that threw: the inner catch
\* runs the fallback staging, the outer catch ends the git block
OnThrow(step) == IF InInnerTry(step) THEN "add_fallback" ELSE "summary"

GitFailedMsg ==
  IF variant = 1
    THEN "Git operations failed: <error>. Ensure git is configured and repository has proper permissions."
    ELSE "Git operations failed: <error>"

NoChangesMsg ==
  "No changes to commit - Claude Code did not make any file modifications"

PrCliFailedMsg == "Failed to create PR with GitHub CLI"

\* the outer catch only logging
ErrorsAfterThrowSilent(step, errs) == errs

\* errors after a command threw: the outer catch pushes one message, the
\* inner catch only warns
ErrorsAfterThrow(step, errs) ==
  IF InInnerTry(step) THEN errs ELSE Append(errs, GitFailedMsg)

\* the step starts: computes branchName when the git block is entered
FinalizeStart ==
  /\ pc = "finalize"
  /\ IF DeliveryRuns
       THEN /\ branchName' = BranchNameFor(reviewAssessmentId)
            /\ pc' = "checkout"
       ELSE /\ branchName' = branchName
            /\ pc' = "summary"
  /\ UNCHANGED <<storeVars, toolVars, wrapperVars, inputVars, loadVars, analysisVars, cmds, prUrl, errors,
                 output>>

\* a command whose only effect on the step is to succeed or throw
Run(step, ok) ==
  /\ pc = step
  /\ cmds' = Append(cmds, Executed(step, ok))
  /\ pc' = IF ok THEN AfterOk(step) ELSE OnThrow(step)
  /\ errors' = IF ok THEN errors ELSE ErrorsAfterThrow(step, errors)

GitCheckout ==
  /\ \E ok \in BOOLEAN : Run("checkout", ok)
  /\ UNCHANGED <<storeVars, toolVars, wrapperVars, inputVars, loadVars, analysisVars, branchName, prUrl, output>>

\* git status --porcelain: empty output means no change
GitStatus ==
  /\ pc = "status"
  /\ \E ok \in BOOLEAN :
       /\ cmds' = Append(cmds, Executed("status", ok))
       /\ IF ~ok
            THEN /\ pc' = OnThrow("status")
                 /\ errors' = ErrorsAfterThrow("status", errors)
            ELSE IF ~treeChanged
              THEN /\ pc' = "summary"
                   /\ errors' = Append(errors, NoChangesMsg)
              ELSE /\ pc' = AfterOk("status")
                   /\ errors' = errors
  /\ UNCHANGED <<storeVars, toolVars, wrapperVars, inputVars, loadVars, analysisVars, branchName, prUrl, output>>

GitAddTracked ==
  /\ \E ok \in BOOLEAN : Run("add_u", ok)
  /\ UNCHANGED <<storeVars, toolVars, wrapperVars, inputVars, loadVars, analysisVars, branchName, prUrl, output>>

GitAddAll ==
  /\ \E ok \in BOOLEAN : Run("add_all", ok)
  /\ UNCHANGED <<storeVars, toolVars, wrapperVars, inputVars, loadVars, analysisVars, branchName, prUrl, output>>

GitAddFallback ==
  /\ \E ok \in BOOLEAN : Run("add_fallback", ok)
  /\ UNCHANGED <<storeVars, toolVars, wrapperVars, inputVars, loadVars, analysisVars, branchName, prUrl, output>>

\* `git add .` of the second definition
GitAddDot ==
  /\ \E ok \in BOOLEAN : Run("add_dot", ok)
  /\ UNCHANGED <<storeVars, toolVars, wrapperVars, inputVars, loadVars, analysisVars, branchName, prUrl, output>>

\* git refuses to commit when nothing is staged
CommitOutcomes == IF treeChanged THEN BOOLEAN ELSE {FALSE}

GitCommit ==
  /\ \E ok \in CommitOutcomes : Run("commit", ok)
  /\ UNCHANGED <<storeVars, toolVars, wrapperVars, inputVars, loadVars, analysisVars, branchName, prUrl, output>>

PlaceholderPrUrl == "https://github.com/owner/repo/pull/123"

\* the placeholder URL set whether or not the push threw
PrUrlAfterPushAlways(ok, hasCreatePrTool) ==
  IF variant = 2 /\ createPR /\ hasCreatePrTool THEN PlaceholderPrUrl ELSE prUrl

\* the second definition sets the placeholder URL right after the push
PrUrlAfterPush(ok, hasCreatePrTool) ==
  IF ok /\ variant = 2 /\ createPR /\ hasCreatePrTool
    THEN PlaceholderPrUrl ELSE prUrl

GitPush ==
  /\ \E ok \in BOOLEAN :
       /\ Run("push", ok)
       /\ \E hasCreatePrTool \in BOOLEAN :
            prUrl' = PrUrlAfterPush(ok, hasCreatePrTool)
  /\ UNCHANGED <<storeVars, toolVars, wrapperVars, inputVars, loadVars, analysisVars, branchName, output>>

\* outcomes of `gh pr create`: prints a pull-request URL, prints something
\* else, or exits with an error
GhOutcomes == {"url", "no_url", "throws"}

CliPrUrl == "https://github.com/<org>/<repo>/pull/<number>"

\* createPRWithGitHubCLI: the URL matched in the output, null otherwise
CreatePRWithGitHubCLI(out) == IF out = "url" THEN CliPrUrl ELSE None

ErrorsAfterPr(url, errs) ==
  IF url # None THEN errs ELSE Append(errs, PrCliFailedMsg)

CreatePR ==
  /\ pc = "pr"
  /\ \E out \in GhOutcomes :
       /\ cmds' = Append(cmds, Executed("pr", out # "throws"))
       /\ prUrl' = CreatePRWithGitHubCLI(out)
       /\ errors' = ErrorsAfterPr(CreatePRWithGitHubCLI(out), errors)
  /\ pc' = "summary"
  /\ UNCHANGED <<storeVars, toolVars, wrapperVars, inputVars, loadVars, analysisVars, branchName, output>>

\* success computed from the mode and the fix count alone
WorkflowSuccessIgnoringErrors(errs, dry, fixes) == dry \/ Len(fixes) > 0

\* success computed from the errors alone
WorkflowSuccessIgnoringFixes(errs, dry, fixes) == Len(errs) = 0

\* errors.length === 0 && (dryRun || fixesProposed.length > 0)
WorkflowSuccess(errs, dry, fixes) == Len(errs) = 0 /\ (dry \/ Len(fixes) > 0)

CeilDiv(n, d) == (n + d - 1) \div d

\* summary.claudeCodeExecutions
ClaudeCodeExecutions(fs) == IF Len(fs) > 0 THEN CeilDiv(Len(fs), 3) ELSE 1

\* the value finalizeStep returns
FinalizeOutput ==
  [success |-> WorkflowSuccess(errors, dryRun, allFixesProposed),
   reviewAssessmentId |-> reviewAssessmentId,
   summary |-> [phase |-> "complete",
                claudeCodeExecutions |-> ClaudeCodeExecutions(findings),
                streamingEventsEmitted |-> 0],
   errors |-> IF Len(errors) > 0 THEN errors ELSE None]

\* the value finalizeStep returned
FinalSummary == output[1]

FinalizeReturn ==
  /\ pc = "summary"
  /\ output' = <<FinalizeOutput>>
  /\ pc' = "done"
  /\ UNCHANGED <<storeVars, toolVars, wrapperVars, inputVars, loadVars, analysisVars, gitVars>>

\* ------------------------------------------------------- specification
Next ==
  \/ LoadMock
  \/ LoadFound
  \/ LoadFailed
  \/ AnalysisStart
  \/ InvokeStart
  \/ InvokeReturn
  \/ InvokeThrow
  \/ AnalysisReturn
  \/ FinalizeStart
  \/ GitCheckout
  \/ GitStatus
  \/ GitAddTracked
  \/ GitAddAll
  \/ GitAddFallback
  \/ GitAddDot
  \/ GitCommit
  \/ GitPush
  \/ CreatePR
  \/ FinalizeReturn

Spec == Init /\ [][Next]_vars

\* ============================================= claudeCodeStreamingTool
\* Texts are sequences of parts; "" is <<>> and a template string is the
\* concatenation of its parts.  sessionId, executionTime and the event
\* timestamps are left out.

\* String.prototype.includes / Array.prototype.includes
Includes(text, needle) == \E i \in 1..Len(text) : text[i] = needle

\* --------------------------------------- what query() can deliver
FinalAnswers == {<<"final answer">>, <<>>}
ErrorSubtypes == {"error_max_turns", "error_during_execution"}

TextBlock(t) == [type |-> "text", text |-> t]
ToolUseBlock(n) == [type |-> "tool_use", name |-> n]

Contents ==
  { <<>>,
    <<TextBlock(<<"partial">>)>>,
    <<TextBlock(<<>>)>>,
    <<ToolUseBlock("Read")>>,
    <<TextBlock(<<"partial">>), ToolUseBlock("Read")>>,
    <<ToolUseBlock("Read"), ToolUseBlock("Read")>>,
    <<ToolUseBlock("Bash"), ToolUseBlock("Read")>> }

ResultMessages ==
  {[type |-> "result", subtype |-> "success", result |-> a, num_turns |-> 2] :
     a \in FinalAnswers}
  \cup {[type |-> "result", subtype |-> sub, num_turns |-> 2] :
          sub \in ErrorSubtypes}
AssistantMessages == {[type |-> "assistant", content |-> c] : c \in Contents}
UserMessages == {[type |-> "user"]}
SystemMessages ==
  { [type |-> "system", subtype |-> "init", tools |-> <<"Read", "Write">>],
    [type |-> "system", subtype |-> "init"],
    [type |-> "system", subtype |-> "compact_boundary"] }
OtherMessages == {[type |-> "stream_event"]}

\* values the iteration can throw: Error objects and one plain string
ThrownValues ==
  { [isError |-> TRUE, message |-> <<"socket hang up">>],
    [isError |-> TRUE, message |-> <<"429: ", "rate limit", " reached">>],
    [isError |-> TRUE, message |-> <<"monthly ", "quota", " exhausted">>],
    [isError |-> TRUE, message |-> <<"invalid ", "ANTHROPIC_API_KEY">>],
    [isError |-> FALSE, message |-> <<"rate limit">>] }

\* ------------------------------------------------ emitProgress
\* execute's mutable locals, the event log and the event counter
Locals ==
  [result |-> result, turnsUsed |-> turnsUsed, toolsCalled |-> toolsCalled,
   hasErrors |-> hasErrors, currentTurn |-> currentTurn, emitted |-> emitted,
   retained |-> retained, streamingEventsEmitted |-> streamingEventsEmitted]

Commit(st) ==
  /\ result' = st.result
  /\ turnsUsed' = st.turnsUsed
  /\ toolsCalled' = st.toolsCalled
  /\ hasErrors' = st.hasErrors
  /\ currentTurn' = st.currentTurn
  /\ emitted' = st.emitted
  /\ retained' = st.retained
  /\ streamingEventsEmitted' = st.streamingEventsEmitted

\* safeWrite counting the event and keeping it for an observer
SafeWriteRetaining(st, event) ==
  [st EXCEPT !.streamingEventsEmitted = @ + 1, !.retained = Append(@, event)]

\* safeWrite only counts the event: nothing is kept or handed on
SafeWrite(st, event) == [st EXCEPT !.streamingEventsEmitted = @ + 1]

\* emitProgress builds the event, passes it to safeWrite and logs it
EmitProgress(st, event) ==
  [SafeWrite(st, event) EXCEPT !.emitted = Append(@, event)]

\* ------------------------------------------------ the message switch
\* case "result"
OnResultAppending(st, msg) ==
  IF msg.subtype = "success" /\ "result" \in DOMAIN msg
  THEN [EmitProgress([st EXCEPT !.result = msg.result],
                     [type |-> "session_complete", turnsUsed |-> msg.num_turns,
                      success |-> TRUE, result |-> msg.result])
          EXCEPT !.turnsUsed = msg.num_turns]
  ELSE [EmitProgress([st EXCEPT !.hasErrors = TRUE,
                                !.result = @ \o <<"Execution failed: ",
                                                  msg.subtype>>],
                     [type |-> "error",
                      error |-> <<"Execution failed: ", msg.subtype>>,
                      turnsUsed |-> msg.num_turns])
          EXCEPT !.turnsUsed = msg.num_turns]

OnResult(st, msg) ==
  IF msg.subtype = "success" /\ "result" \in DOMAIN msg
  THEN [EmitProgress([st EXCEPT !.result = msg.result],
                     [type |-> "session_complete", turnsUsed |-> msg.num_turns,
                      success |-> TRUE, result |-> msg.result])
          EXCEPT !.turnsUsed = msg.num_turns]
  ELSE [EmitProgress([st EXCEPT !.hasErrors = TRUE,
                                !.result = <<"Execution failed: ",
                                             msg.subtype>>],
                     [type |-> "error",
                      error |-> <<"Execution failed: ", msg.subtype>>,
                      turnsUsed |-> msg.num_turns])
          EXCEPT !.turnsUsed = msg.num_turns]

\* toolsCalled.push(toolName) unless it is already there
PushTool(tools, toolName) ==
  IF toolName # None /\ ~Includes(tools, toolName)
  THEN Append(tools, toolName)
  ELSE tools

\* one pass of `for (const content of assistantMessage.content)`
OnContent(st, content) ==
  LET afterText ==
        IF content.type = "text" /\ content.text # <<>>
        THEN EmitProgress([st EXCEPT !.result = @ \o content.text],
                          [type |-> "response", message |-> content.text,
                           turnNumber |-> st.currentTurn + 1])
        ELSE st
  IN IF content.type = "tool_use"
     THEN EmitProgress([afterText EXCEPT
                          !.toolsCalled = PushTool(@, content.name)],
                       [type |-> "tool_use", toolName |-> content.name,
                        turnNumber |-> st.currentTurn + 1])
     ELSE afterText

RECURSIVE ContentLoop(_, _)
ContentLoop(st, contents) ==
  IF contents = <<>>
  THEN st
  ELSE ContentLoop(OnContent(st, Head(contents)), Tail(contents))

\* case "assistant"
OnAssistant(st, msg) ==
  LET after == ContentLoop(st, msg.content)
  IN EmitProgress([after EXCEPT !.currentTurn = @ + 1],
                  [type |-> "turn_complete",
                   turnNumber |-> after.currentTurn + 1])

\* case "user"
OnUser(st, msg) ==
  EmitProgress(st, [type |-> "thinking", message |-> <<"Processing user input">>,
                    turnNumber |-> st.currentTurn + 1])

\* Array.from(new Set(array)): first occurrences, in order
RECURSIVE ArrayFromSet(_)
ArrayFromSet(array) ==
  IF array = <<>>
  THEN <<>>
  ELSE LET front == ArrayFromSet(SubSeq(array, 1, Len(array) - 1))
           last == array[Len(array)]
       IN IF Includes(front, last) THEN front ELSE Append(front, last)

\* case "system" answering the init message with a starting event
OnSystemStarting(st, msg) ==
  IF msg.subtype = "init"
  THEN EmitProgress(st, [type |-> "starting", prompt |-> "prompt"])
  ELSE st

\* case "system"
OnSystem(st, msg) ==
  IF msg.subtype = "init" /\ "tools" \in DOMAIN msg
  THEN EmitProgress(
         [st EXCEPT !.toolsCalled = ArrayFromSet(@ \o msg.tools)],
         [type |-> "thinking",
          message |-> <<"Initialized with ", Len(msg.tools),
                        " available tools: ", msg.tools>>])
  ELSE st

\* default, without the debug guard
OnOtherAlways(st, msg, dbg) ==
  EmitProgress(st, [type |-> "thinking",
                    message |-> <<"Received ", msg.type, " message">>])

\* default
OnOther(st, msg, dbg) ==
  IF dbg
  THEN EmitProgress(st, [type |-> "thinking",
                         message |-> <<"Received ", msg.type, " message">>])
  ELSE st

\* ------------------------------------------------ returned values
MissingKeyMsg ==
  <<"ANTHROPIC_API_KEY environment variable is required for Claude Code tool. Please set it to your Anthropic API key.">>

MissingKeyReturn(count) ==
  [result |-> <<"Error: ">> \o MissingKeyMsg,
   metadata |-> [turnsUsed |-> 0, toolsCalled |-> <<>>, hasErrors |-> TRUE,
                 streamingEventsEmitted |-> count]]

NoResultText == <<"No result returned from Claude Code">>

FinalReturn(st) ==
  [result |-> IF st.result # <<>> THEN st.result ELSE NoResultText,
   metadata |-> [turnsUsed |-> st.turnsUsed, toolsCalled |-> st.toolsCalled,
                 hasErrors |-> st.hasErrors,
                 streamingEventsEmitted |-> st.streamingEventsEmitted]]

\* the catch block raises a new error for these messages
Rethrows(error) ==
  /\ error.isError
  /\ \/ Includes(error.message, "ANTHROPIC_API_KEY")
     \/ Includes(error.message, "rate limit")
     \/ Includes(error.message, "quota")

RethrownMessage(error) ==
  IF Includes(error.message, "ANTHROPIC_API_KEY")
  THEN <<"Authentication failed: Please ensure ANTHROPIC_API_KEY environment variable is set correctly.">>
  ELSE <<"Rate limit or quota exceeded: Please check your Anthropic API usage and try again later.">>

\* a structured error response that does not flag the error
CaughtReturnWithoutFlag(errorMsg, count) ==
  [result |-> <<"Error executing Claude Code: ">> \o errorMsg,
   metadata |-> [turnsUsed |-> 0, toolsCalled |-> <<>>, hasErrors |-> FALSE,
                 streamingEventsEmitted |-> count]]

CaughtReturn(errorMsg, count) ==
  [result |-> <<"Error executing Claude Code: ">> \o errorMsg,
   metadata |-> [turnsUsed |-> 0, toolsCalled |-> <<>>, hasErrors |-> TRUE,
                 streamingEventsEmitted |-> count]]

\* ------------------------------------------------ execute
\* `if (!process.env.ANTHROPIC_API_KEY)` lets the call through
EntryOpensSessionAlways(keySet) == TRUE

EntryOpensSession(keySet) == keySet

\* the workflow is not running
WorkflowIdle ==
  /\ variant = 1
  /\ entryPoint = "workflow"
  /\ optionsOmitted = FALSE
  /\ WrapperIdle
  /\ reviewAssessmentId = "R1"
  /\ dryRun = TRUE
  /\ autoCommit = FALSE
  /\ createPR = FALSE
  /\ pc = "idle"
  /\ loadSuccess = FALSE
  /\ loaderCalls = 0
  /\ findings = <<>>
  /\ pending = <<>>
  /\ inFlight = 0
  /\ invocations = <<>>
  /\ combinedAnalysisResult = <<>>
  /\ allFixesProposed = <<>>
  /\ analysisSuccess = FALSE
  /\ treeChanged = FALSE
  /\ cmds = <<>>
  /\ branchName = NoBranch
  /\ prUrl = None
  /\ errors = <<>>
  /\ output = <<>>

ToolInit ==
  /\ WorkflowIdle
  /\ StoreIdle
  /\ apiKeySet \in BOOLEAN
  /\ debug \in BOOLEAN
  /\ toolPc = "entry"
  /\ queryStarted = FALSE
  /\ consumed = <<>>
  /\ result = <<>>
  /\ turnsUsed = 0
  /\ toolsCalled = <<>>
  /\ hasErrors = FALSE
  /\ currentTurn = 0
  /\ emitted = <<>>
  /\ retained = <<>>
  /\ streamingEventsEmitted = 0
  /\ toolReturn = <<>>
  /\ toolThrown = <<>>

\* entry of execute up to the call of query()
ExecuteEntry ==
  /\ toolPc = "entry"
  /\ IF EntryOpensSession(apiKeySet)
     THEN LET st == EmitProgress(Locals, [type |-> "starting",
                                          prompt |-> "prompt"])
          IN /\ Commit(st)
             /\ queryStarted' = TRUE
             /\ toolPc' = "iterating"
             /\ toolReturn' = toolReturn
     ELSE LET st == EmitProgress(Locals, [type |-> "error",
                                          error |-> MissingKeyMsg])
          IN /\ Commit(st)
             /\ queryStarted' = queryStarted
             /\ toolPc' = "returned"
             /\ toolReturn' = <<MissingKeyReturn(st.streamingEventsEmitted)>>
  /\ UNCHANGED <<storeVars, workflowVars, toolInputVars, consumed, toolThrown>>

\* one turn of the for-await loop: the message is taken and handled
Consume(msg, st) ==
  /\ consumed' = Append(consumed, msg)
  /\ Commit(st)
  /\ UNCHANGED <<storeVars, workflowVars, toolInputVars, toolPc, queryStarted, toolReturn,
                 toolThrown>>

ResultMessage ==
  /\ toolPc = "iterating"
  /\ Len(consumed) < MaxMessages
  /\ \E msg \in ResultMessages : Consume(msg, OnResult(Locals, msg))

AssistantMessage ==
  /\ toolPc = "iterating"
  /\ Len(consumed) < MaxMessages
  /\ \E msg \in AssistantMessages : Consume(msg, OnAssistant(Locals, msg))

UserMessage ==
  /\ toolPc = "iterating"
  /\ Len(consumed) < MaxMessages
  /\ \E msg \in UserMessages : Consume(msg, OnUser(Locals, msg))

SystemMessage ==
  /\ toolPc = "iterating"
  /\ Len(consumed) < MaxMessages
  /\ \E msg \in SystemMessages : Consume(msg, OnSystem(Locals, msg))

OtherMessage ==
  /\ toolPc = "iterating"
  /\ Len(consumed) < MaxMessages
  /\ \E msg \in OtherMessages : Consume(msg, OnOther(Locals, msg, debug))

\* the stream ends: the code after the loop
StreamEnd ==
  /\ toolPc = "iterating"
  /\ toolReturn' = <<FinalReturn(Locals)>>
  /\ toolPc' = "returned"
  /\ UNCHANGED <<storeVars, workflowVars, toolInputVars, queryStarted, consumed,
                 toolLocals, emitted, retained, streamingEventsEmitted,
                 toolThrown>>

\* query() or its iteration throws: the catch block
TransportThrow ==
  /\ toolPc = "iterating"
  /\ \E error \in ThrownValues :
       LET st == EmitProgress(Locals, [type |-> "error",
                                       error |-> error.message])
       IN /\ Commit(st)
          /\ IF Rethrows(error)
             THEN /\ toolPc' = "thrown"
                  /\ toolThrown' = RethrownMessage(error)
                  /\ toolReturn' = toolReturn
             ELSE /\ toolPc' = "returned"
                  /\ toolReturn' = <<CaughtReturn(error.message,
                                                  st.streamingEventsEmitted)>>
                  /\ toolThrown' = toolThrown
  /\ UNCHANGED <<storeVars, workflowVars, toolInputVars, queryStarted, consumed>>

ToolNext ==
  \/ ExecuteEntry
  \/ ResultMessage
  \/ AssistantMessage
  \/ UserMessage
  \/ SystemMessage
  \/ OtherMessage
  \/ StreamEnd
  \/ TransportThrow

ToolSpec == ToolInit /\ [][ToolNext]_vars


\* ============================================== prCreationWorkflowTool
\* The tool starts a run of the workflow, pipes the run's stream to the agent
\* writer and turns the run's outcome into its own summary.

\* the writer handed to execute: absent, accepting every chunk, locked by
\* another reader, failing, or never accepting a chunk
Writers == {"absent", "ready", "locked", "broken", "stalled"}

\* what stream.result resolves to for a successful run: the value the last
\* step returned, or an envelope without a summary field
ResultShapes == {"output", "envelope"}

\* stream.status once the stream has ended
StreamStatus == IF pc = "done" THEN "success" ELSE "failed"

\* workflowResult.summary?.phase || 'completed'
SummaryPhase(shape) ==
  IF shape = "output" THEN FinalSummary.summary.phase ELSE "completed"

\* workflowResult.summary?.claudeCodeExecutions || 1
SummaryExecutions(shape) ==
  IF shape = "output" /\ FinalSummary.summary.claudeCodeExecutions # 0
  THEN FinalSummary.summary.claudeCodeExecutions
  ELSE 1

\* the human-readable message of a completed run
CompletedMessage(shape) ==
  IF dryRun
  THEN <<"Dry run analysis completed for review ", reviewAssessmentId>>
  ELSE IF shape = "output" /\ FinalSummary.summary.phase = "complete"
  THEN <<"Successfully created PR for review ", reviewAssessmentId>>
  ELSE <<"PR creation workflow completed for review ", reviewAssessmentId>>

\* the value returned for streamStatus === 'success'
CompletedSummary(shape) ==
  [success |-> TRUE,
   reviewAssessmentId |-> reviewAssessmentId,
   summary |-> [phase |-> SummaryPhase(shape),
                claudeCodeExecutions |-> SummaryExecutions(shape),
                fixesProposed |-> 0,
                branchCreated |-> None,
                prUrl |-> None],
   message |-> CompletedMessage(shape)]

\* the value returned for any other status and by the catch block
FailedSummary(phase, errorMessage) ==
  [success |-> FALSE,
   reviewAssessmentId |-> reviewAssessmentId,
   summary |-> [phase |-> phase, claudeCodeExecutions |-> 0,
                fixesProposed |-> 0],
   errors |-> <<errorMessage>>,
   message |-> <<"PR creation failed for review ", reviewAssessmentId, ": ",
                 errorMessage>>]

\* errorMessage of the else branch
StatusErrorMessage(status) ==
  IF status = "failed"
  THEN "Workflow execution failed"
  ELSE "Workflow ended with status: <status>"

\* pipeTo rejects: the writer is locked or its sink fails
PipeRejects(w) == w \in {"locked", "broken"}

\* the message includes 'WritableStream is locked': the stream is read by hand
FallsBackToManual(w) == w = "locked"

\* await stream.pipeTo(writer) settles once the writer has taken or refused
\* the chunks; it stays pending while the writer accepts none
PipeSettles(w) == w # "stalled"

WrapperInit ==
  /\ variant \in Variants
  /\ entryPoint = "tool"
  /\ ParsedInput(entryPoint)
  /\ wrapperPc = "entry"
  /\ writer = None
  /\ wrapperOutput = <<>>
  /\ pc = "idle"
  /\ RunNotStarted
  /\ ToolIdle
  /\ StoreIdle

\* createRunAsync and streamVNext: the run starts with the parsed input
WrapperStart ==
  /\ wrapperPc = "entry"
  /\ wrapperPc' = "streaming"
  /\ pc' = "load"
  /\ UNCHANGED <<storeVars, toolVars, inputVars, loadVars, analysisVars, gitVars, output,
                 writer, wrapperOutput>>

\* createRunAsync or streamVNext throws: the catch block returns
WrapperStartThrows ==
  /\ wrapperPc = "entry"
  /\ wrapperOutput' = <<FailedSummary("error", "<error.message>")>>
  /\ wrapperPc' = "returned"
  /\ UNCHANGED <<storeVars, toolVars, inputVars, pc, loadVars, analysisVars, gitVars,
                 output, writer>>

\* the run has ended and its stream is handed to the writer, if any
WrapperPipe ==
  /\ wrapperPc = "streaming"
  /\ pc \in {"done", "failed"}
  /\ \E w \in Writers : writer' = w
  /\ wrapperPc' = "piping"
  /\ UNCHANGED <<storeVars, toolVars, inputVars, pc, loadVars, analysisVars, gitVars,
                 output, wrapperOutput>>

\* pipeTo or the manual loop is over: the summary is built from the status
WrapperReturn ==
  /\ wrapperPc = "piping"
  /\ PipeSettles(writer)
  /\ IF PipeRejects(writer) /\ ~FallsBackToManual(writer)
     THEN wrapperOutput' = <<FailedSummary("error", "<error.message>")>>
     ELSE IF StreamStatus = "success"
     THEN \E shape \in ResultShapes :
            wrapperOutput' = <<CompletedSummary(shape)>>
     ELSE wrapperOutput' =
            <<FailedSummary("failed", StatusErrorMessage(StreamStatus))>>
  /\ wrapperPc' = "returned"
  /\ UNCHANGED <<storeVars, toolVars, inputVars, pc, loadVars, analysisVars, gitVars,
                 output, writer>>

WrapperNext ==
  \/ WrapperStart
  \/ WrapperStartThrows
  \/ LoadMock
  \/ LoadFound
  \/ LoadFailed
  \/ AnalysisStart
  \/ InvokeStart
  \/ InvokeReturn
  \/ InvokeThrow
  \/ AnalysisReturn
  \/ FinalizeStart
  \/ GitCheckout
  \/ GitStatus
  \/ GitAddTracked
  \/ GitAddAll
  \/ GitAddFallback
  \/ GitAddDot
  \/ GitCommit
  \/ GitPush
  \/ CreatePR
  \/ FinalizeReturn
  \/ WrapperPipe
  \/ WrapperReturn

WrapperSpec == WrapperInit /\ [][WrapperNext]_vars

\* every step of the tool and of the run it started is taken once it can be
FairWrapperSpec == WrapperSpec /\ WF_vars(WrapperNext)

\* ------------------------------------------------------ GuardrailStore
\* updated_at of a guardrail read from the file
LoadedStamp == 1

\* new Date().toISOString() of the next call: later calls get later stamps
Now == LoadedStamp + Len(storeOps) + 1

\* what loadFromFile may find in the file: each guardrail there or not
StoredGuardrails == [GuardrailIds -> {Absent, LoadedStamp}]

\* saveToFile up to its first await: the values of the Map are copied
\* (Array.from) and mkdir is started; a call that does not save is over
BegunOp(kind, id, map, saves) ==
  [kind |-> kind, id |-> id, snapshot |-> map,
   stage |-> IF saves THEN "mkdir" ELSE "done"]

\* loadFromFile(filePath, autoSave) has filled the Map from a valid file
StoreInit ==
  /\ WorkflowIdle
  /\ ToolIdle
  /\ autoSave \in BOOLEAN
  /\ \E stored \in StoredGuardrails :
       /\ guardrails = stored
       /\ fileContent = stored
  /\ storeOps = <<>>

\* add: the Map entry is set, then the auto-save is awaited
StoreAdd ==
  /\ Len(storeOps) < MaxStoreOps
  /\ \E id \in GuardrailIds :
       LET map == [guardrails EXCEPT ![id] = Now]
       IN /\ guardrails' = map
          /\ storeOps' = Append(storeOps, BegunOp("add", id, map, autoSave))
  /\ UNCHANGED <<workflowVars, toolVars, autoSave, fileContent>>

\* update: null for an id that is not there, else as add
StoreUpdate ==
  /\ Len(storeOps) < MaxStoreOps
  /\ \E id \in GuardrailIds :
       LET existing == guardrails[id] # Absent
           map == IF existing THEN [guardrails EXCEPT ![id] = Now]
                  ELSE guardrails
       IN /\ guardrails' = map
          /\ storeOps' =
               Append(storeOps,
                      BegunOp("update", id, map, existing /\ autoSave))
  /\ UNCHANGED <<workflowVars, toolVars, autoSave, fileContent>>

\* delete: the auto-save runs only when an entry was removed
StoreDelete ==
  /\ Len(storeOps) < MaxStoreOps
  /\ \E id \in GuardrailIds :
       LET deleted == guardrails[id] # Absent
           map == [guardrails EXCEPT ![id] = Absent]
       IN /\ guardrails' = map
          /\ storeOps' =
               Append(storeOps,
                      BegunOp("delete", id, map, deleted /\ autoSave))
  /\ UNCHANGED <<workflowVars, toolVars, autoSave, fileContent>>

\* await fs.mkdir settles for one of the calls: its writeFile starts
StoreMkdirDone ==
  /\ \E k \in 1..Len(storeOps) :
       /\ storeOps[k].stage = "mkdir"
       /\ storeOps' = [storeOps EXCEPT ![k].stage = "write"]
  /\ UNCHANGED <<workflowVars, toolVars, autoSave, guardrails, fileContent>>

\* await fs.writeFile settles for one of the calls: the file holds the
\* copy that call made, and the call returns
StoreWriteDone ==
  /\ \E k \in 1..Len(storeOps) :
       /\ storeOps[k].stage = "write"
       /\ fileContent' = storeOps[k].snapshot
       /\ storeOps' = [storeOps EXCEPT ![k].stage = "done"]
  /\ UNCHANGED <<workflowVars, toolVars, autoSave, guardrails>>

StoreNext ==
  \/ StoreAdd
  \/ StoreUpdate
  \/ StoreDelete
  \/ StoreMkdirDone
  \/ StoreWriteDone

StoreSpec == StoreInit /\ [][StoreNext]_vars

\* --------------------------------------------------------------- claims
CmdIndices == 1..Len(cmds)

Issued(step) == \E i \in CmdIndices : cmds[i].step = step

Succeeded(step) == \E i \in CmdIndices : cmds[i].step = step /\ cmds[i].ok

Failed(step) == \E i \in CmdIndices : cmds[i].step = step /\ ~cmds[i].ok

TimesIssued(step) == Cardinality({i \in CmdIndices : cmds[i].step = step})

StagingSteps == {"add_u", "add_all", "add_fallback", "add_dot"}

\* C1: in a run with dryRun=true no git command and no gh command is ever
\* executed, and branchName and prUrl are absent, in every state of the run
\* and whatever the findings, the fixes, autoCommit and createPR.
C1_DryRunNeverTouchesGit ==
  dryRun => (cmds = <<>> /\ branchName = NoBranch /\ prUrl = None)

C1_Witness ==
  /\ dryRun /\ autoCommit /\ createPR
  /\ pc = "done"
  /\ Len(allFixesProposed) > 0

\* C2: the success flag of the returned summary is true exactly when no
\* error was accumulated and (the run is a dry run or the fix list is not
\* empty).
C2_SuccessFlag ==
  pc = "done" =>
    (FinalSummary.success <=>
       (errors = <<>> /\ (dryRun \/ allFixesProposed # <<>>)))

C2_Witness ==
  /\ pc = "done"
  /\ ~dryRun
  /\ allFixesProposed # <<>>
  /\ Succeeded("push")
  /\ errors # <<>>
  /\ FinalSummary.success = FALSE

\* C3 as stated: when the delivery precondition does not hold (dry run, or
\* empty fix list) no git command runs and the run reports success=true.
C3_NoopReportsSuccess ==
  (pc = "done" /\ (dryRun \/ allFixesProposed = <<>>)) =>
    (cmds = <<>> /\ FinalSummary.success = TRUE)

\* C3 amended: when the delivery precondition does not hold no git command
\* runs and no branch name is computed; the run reports success=true when it
\* is a dry run and success=false when it is not (empty fix list).
C3_NoopSuccessOnlyInDryRun ==
  (pc = "done" /\ (dryRun \/ allFixesProposed = <<>>)) =>
    /\ cmds = <<>>
    /\ branchName = NoBranch
    /\ FinalSummary.success = dryRun

C3_Witness ==
  /\ pc = "done"
  /\ ~dryRun
  /\ findings # <<>>
  /\ allFixesProposed = <<>>
  /\ cmds = <<>>
  /\ FinalSummary.success = FALSE

\* C4: in every state a present prUrl implies a present branchName and an
\* empty errors sequence, and no branch creation, staging, commit or push of
\* the run has failed.
C4_PrUrlImpliesCleanDelivery ==
  prUrl # None =>
    /\ branchName # NoBranch
    /\ errors = <<>>
    /\ Succeeded("push")
    /\ \A i \in CmdIndices :
         cmds[i].step \in {"checkout", "add_fallback", "add_dot", "commit", "push"}
           => cmds[i].ok

C4_Witness ==
  /\ pc = "done"
  /\ variant = 2
  /\ prUrl # None

\* position of a command in the order create branch, inspect status, stage,
\* commit, push, create PR
StageOf(step) ==
  CASE step = "checkout" -> 1
    [] step = "status" -> 2
    [] step \in StagingSteps -> 3
    [] step = "commit" -> 4
    [] step = "push" -> 5
    [] step = "pr" -> 6

\* the last command issued for a stage succeeded (staging succeeds when its
\* fallback does)
StageSucceeded(n) ==
  LET is == {i \in CmdIndices : StageOf(cmds[i].step) = n}
  IN is # {} /\ cmds[CHOOSE i \in is : \A j \in is : j <= i].ok

\* C5: the commands of one delivery run occur in the order create branch,
\* inspect status, stage, commit, push, create PR, and a command is issued
\* only after every earlier stage that was entered has succeeded: commit
\* only after staging, push only after a successful commit, PR creation only
\* after a successful push.
C5_CommandOrder ==
  /\ \A i, j \in CmdIndices :
       i < j =>
         /\ StageOf(cmds[i].step) <= StageOf(cmds[j].step)
         /\ StageOf(cmds[i].step) < StageOf(cmds[j].step)
              => StageSucceeded(StageOf(cmds[i].step))
  /\ cmds # <<>> => cmds[1].step = "checkout"
  /\ Issued("commit") => StageSucceeded(3)
  /\ Issued("push") => Succeeded("commit")
  /\ Issued("pr") => Succeeded("push")

C5_Witness ==
  /\ pc = "done"
  /\ Failed("add_all")
  /\ Succeeded("add_fallback")
  /\ Issued("pr")
  /\ Len(cmds) = 8

\* C6: if branch creation fails the run records exactly one error and
\* attempts no status inspection, staging, commit, push or PR creation.
C6_BranchFailureIsFatal ==
  Failed("checkout") =>
    /\ Len(errors) = 1
    /\ Len(cmds) = 1
    /\ prUrl = None

C6_Witness ==
  /\ pc = "done"
  /\ Failed("checkout")
  /\ autoCommit /\ createPR

\* the "no changes to commit" error, in the claim's wording or in the text
\* the step pushes for it
NoChangesErrors == {"no changes to commit", NoChangesMsg}

\* C7: with dryRun=false, autoCommit=true, a non-empty fix list, a created
\* branch and a working tree without changes, the run ends with exactly one
\* error, the "no changes to commit" error, and attempts no staging, commit,
\* push or PR creation (and nothing that deletes or leaves the branch).
C7_NoChangesOutcome ==
  (/\ pc = "done"
   /\ ~dryRun /\ autoCommit
   /\ allFixesProposed # <<>>
   /\ Succeeded("checkout")
   /\ ~Failed("status")
   /\ ~treeChanged) =>
    /\ Len(errors) = 1
    /\ errors[1] \in NoChangesErrors
    /\ \A i \in CmdIndices : cmds[i].step \in {"checkout", "status"}

\* C8: if PR creation fails after a successful push, the value returned to
\* the caller reports the created branch name, exactly one error has been
\* recorded, and branch creation, commit and push each ran exactly once.
C8_PrFailureStillReportsBranch ==
  (/\ pc = "done"
   /\ Succeeded("push")
   /\ Issued("pr")
   /\ prUrl = None) =>
    /\ "branchName" \in DOMAIN FinalSummary
    /\ Len(errors) = 1
    /\ TimesIssued("checkout") = 1
    /\ TimesIssued("commit") = 1
    /\ TimesIssued("push") = 1

\* commands that would undo a delivery step
RollbackCommands ==
  {"git branch -D", "git branch -d", "git reset", "git checkout -",
   "git checkout main", "git revert"}

\* C9: once branch creation, the fallback staging, the commit or the push
\* has failed, the git block is over: one descriptive error is recorded, the
\* failed command is the last command of the run, and no rollback command is
\* ever issued.
C9_FailureIsTerminal ==
  /\ \A i \in CmdIndices :
       (cmds[i].step \in {"checkout", "add_fallback", "add_dot", "commit", "push"}
          /\ ~cmds[i].ok) =>
         /\ i = Len(cmds)
         /\ pc \in {"summary", "done"}
         /\ errors = <<GitFailedMsg>>
         /\ prUrl = None
  /\ \A i \in CmdIndices : cmds[i].cmd \notin RollbackCommands

C9_Witness ==
  /\ pc = "done"
  /\ variant = 1
  /\ createPR
  /\ Failed("push")

\* bucket names of the findings of the run
CategoriesPresent ==
  {IF findings[j].category = "" THEN "general" ELSE findings[j].category :
     j \in 1..Len(findings)}

InvocationsFor(c) ==
  Cardinality({i \in 1..Len(invocations) : invocations[i].category = c})

\* C10 as stated: the dispatcher makes exactly one execution per distinct
\* category of the findings, and the fix list is as long as the findings.
C10_OncePerCategoryAllFixes ==
  pc = "finalize" =>
    /\ Len(invocations) = Cardinality(CategoriesPresent)
    /\ Len(allFixesProposed) = Len(findings)

\* the finding belongs to a bucket whose execution returned
BucketReturned(j) ==
  \E i \in 1..Len(invocations) :
    /\ ~combinedAnalysisResult[IF variant = 2 THEN i ELSE 1].failed
    /\ \E k \in 1..Len(invocations[i].findings) :
         invocations[i].findings[k] = findings[j]

\* C10 amended: when the analysis step returns, the per-category dispatcher
\* has made exactly one execution per distinct category bucket (a missing
\* category counts as "general"), the single-execution dispatcher exactly
\* one execution when there is any finding, and the fix list is as long as
\* the findings of the buckets whose execution returned without throwing.
C10_OncePerBucketFixesOfReturned ==
  pc = "finalize" =>
    /\ variant = 2 =>
         /\ Len(invocations) = Cardinality(CategoriesPresent)
         /\ \A c \in CategoriesPresent : InvocationsFor(c) = 1
    /\ variant = 1 =>
         Len(invocations) = IF findings = <<>> THEN 0 ELSE 1
    /\ Len(allFixesProposed) =
         Cardinality({j \in 1..Len(findings) : BucketReturned(j)})

C10_Witness ==
  /\ pc = "finalize"
  /\ variant = 2
  /\ Len(invocations) = 3
  /\ \E i \in 1..3 : combinedAnalysisResult[i].failed
  /\ Len(allFixesProposed) > 0
  /\ Len(allFixesProposed) < Len(findings)

\* bucket name of the j-th finding of the run
BucketNameOf(j) ==
  IF findings[j].category = "" THEN "general" ELSE findings[j].category

InvocationIndices == 1..Len(invocations)

\* the i-th execution threw (its block is an error block)
ExecutionThrew(i) == combinedAnalysisResult[IF variant = 2 THEN i ELSE 1].failed

FirstIndex(c) ==
  CHOOSE j \in 1..Len(findings) :
    BucketNameOf(j) = c /\ \A k \in 1..(j - 1) : BucketNameOf(k) # c

\* C12: the per-category dispatcher processes the buckets in the order in
\* which their category first occurs in the findings, for any category
\* strings, and the findings of a bucket keep their relative order.
C12_FirstEncounterOrder ==
  (pc = "finalize" /\ variant = 2) =>
    /\ \A i, k \in InvocationIndices :
         i < k => FirstIndex(invocations[i].category)
                    < FirstIndex(invocations[k].category)
    /\ \A i \in InvocationIndices :
         invocations[i].findings =
           SelectSeq(findings,
                     LAMBDA f : (IF f.category = "" THEN "general" ELSE f.category)
                                  = invocations[i].category)

\* the finding is among the findings handed to the "general" execution
InGeneralBucket(j) ==
  \E i \in InvocationIndices :
    /\ invocations[i].category = "general"
    /\ \E k \in 1..Len(invocations[i].findings) :
         invocations[i].findings[k] = findings[j]

\* the fix list holds the finding's recommendation prefixed with "general: "
HasGeneralFix(j) ==
  \E k \in 1..Len(allFixesProposed) :
    allFixesProposed[k] = <<"general", ": ">> \o findings[j].recommendation

\* C13 as stated: a finding without category is grouped under "general" and
\* yields a fix-list entry prefixed with "general:".
C13_MissingCategoryYieldsGeneralFix ==
  (pc = "finalize" /\ variant = 2) =>
    \A j \in 1..Len(findings) :
      findings[j].category = "" => (InGeneralBucket(j) /\ HasGeneralFix(j))

\* C13 amended: in the per-category dispatcher a finding without category
\* is grouped under "general"; it yields a fix-list entry prefixed with
\* "general: " exactly when the execution for the "general" bucket returned
\* without throwing.
C13_MissingCategoryGeneralFixWhenReturned ==
  (pc = "finalize" /\ variant = 2) =>
    \A j \in 1..Len(findings) :
      findings[j].category = "" =>
        /\ InGeneralBucket(j)
        /\ HasGeneralFix(j) <=>
             (\E i \in InvocationIndices :
                invocations[i].category = "general" /\ ~ExecutionThrew(i))

C13_Witness ==
  /\ pc = "finalize"
  /\ variant = 2
  /\ \E j \in 1..Len(findings) : findings[j].category = "" /\ HasGeneralFix(j)
  /\ \E j \in 1..Len(findings) : findings[j].category = "general"
  /\ Len(invocations) = 2

\* recommendations of one execution's findings, each prefixed with the
\* category name
PrefixedRecommendations(inv) ==
  [k \in 1..Len(inv.findings) |->
     <<inv.category, ": ">> \o inv.findings[k].recommendation]

PlainRecommendations(inv) ==
  [k \in 1..Len(inv.findings) |-> inv.findings[k].recommendation]

\* concatenation over the first n executions (only those that returned when
\* onlyReturned) of their recommendations (prefixed or bare)
RECURSIVE ConcatOver(_, _, _)
ConcatOver(n, onlyReturned, prefixed) ==
  IF n = 0 THEN <<>>
  ELSE ConcatOver(n - 1, onlyReturned, prefixed)
         \o (IF onlyReturned /\ ExecutionThrew(n) THEN <<>>
             ELSE IF prefixed THEN PrefixedRecommendations(invocations[n])
             ELSE PlainRecommendations(invocations[n]))

\* C14 as stated: the fix list is the concatenation, in bucket order, of the
\* recommendations of each bucket's findings, each prefixed with the
\* category name.
C14_FixListIsPrefixedConcatenation ==
  pc = "finalize" =>
    allFixesProposed =
      ConcatOver(Len(invocations), FALSE, TRUE)

\* C14 amended: the fix list is the concatenation, in the order the buckets
\* are processed, of the recommendations of the findings of each bucket whose
\* execution returned without throwing, in bucket-internal order; the
\* per-category dispatcher prefixes each entry with "<category>: ", the
\* single-execution dispatcher lists the bare recommendations.
C14_FixListOfReturnedBuckets ==
  pc = "finalize" =>
    allFixesProposed =
      ConcatOver(Len(invocations), TRUE, variant = 2)

C14_Witness ==
  /\ pc = "finalize"
  /\ variant = 2
  /\ Len(invocations) = 2
  /\ ~ExecutionThrew(1) /\ ~ExecutionThrew(2)
  /\ Len(findings) = 3
  /\ findings[1].category = findings[3].category
  /\ Len(allFixesProposed) = 3

\* C15: the success flag the analysis step returns is true exactly when the
\* fix list is not empty, however many executions failed.
C15_DispatcherSuccess ==
  pc \in {"finalize", "checkout", "status", "add_u", "add_all",
          "add_fallback", "add_dot", "commit", "push", "pr", "summary", "done"}
    => (analysisSuccess <=> allFixesProposed # <<>>)

C15_Witness ==
  /\ pc = "finalize"
  /\ analysisSuccess
  /\ \E i \in InvocationIndices : ExecutionThrew(i)
  /\ \E i \in InvocationIndices : ~ExecutionThrew(i)

\* ------------------------------------- claims on the run as a whole
\* errors of the returned summary; `errors: undefined` reads as no error
OutputErrors == IF errors = <<>> THEN <<>> ELSE FinalSummary.errors

\* error strings the earlier stages produced: the load failure and the
\* executions that threw
LoadFailures == IF loadSuccess THEN 0 ELSE 1

RemediationFailures ==
  Cardinality({i \in 1..Len(combinedAnalysisResult) :
                 combinedAnalysisResult[i].failed})

\* C26: the errors of the final summary hold every error of every stage, in
\* stage order: the load failure, the failed executions, then the delivery
\* errors.
C26_ErrorsOfAllStages ==
  pc = "done" =>
    /\ Len(OutputErrors) = LoadFailures + RemediationFailures + Len(errors)
    /\ \A i \in 1..Len(errors) :
         OutputErrors[Len(OutputErrors) - Len(errors) + i] = errors[i]

LoadStage == {"load"}
DispatcherStage == {"analysis", "dispatch", "invoking"}
DeliveryStage == {"finalize", "checkout", "status", "add_u", "add_all",
                  "add_fallback", "add_dot", "commit", "push", "pr", "summary"}

\* C27: the stages run one after the other: the loader is called before any
\* invocation and any command, an invocation starts only after the load step
\* returned and before any command, and a command is issued only after the
\* dispatcher returned, with no invocation in flight and no bucket left.
C27_StagesSequential ==
  [][/\ loaderCalls' # loaderCalls =>
          (pc \in LoadStage /\ invocations = <<>> /\ cmds = <<>>)
     /\ invocations' # invocations =>
          (pc \in DispatcherStage /\ pc' \in DispatcherStage /\ cmds = <<>>)
     /\ cmds' # cmds =>
          (pc \in DeliveryStage /\ inFlight = 0 /\ pending = <<>>)
     /\ (pc \in DeliveryStage /\ pc' # pc) => pc' \in DeliveryStage \cup {"done"}
     /\ (pc \in DispatcherStage /\ pc' # pc) =>
          pc' \in DispatcherStage \cup {"finalize", "failed"}]_vars

C27_Witness ==
  /\ loaderCalls = 1
  /\ Len(invocations) = 2
  /\ Len(cmds) >= 2
  /\ inFlight = 0

\* C28: at most one invocation is in flight, and an invocation starts only
\* when every earlier one has returned or thrown.
C28_AtMostOneInFlight ==
  /\ inFlight \in {0, 1}
  /\ inFlight = 1 =>
       Len(combinedAnalysisResult)
         = (IF variant = 2 THEN Len(invocations) - 1 ELSE 0)
  /\ inFlight = 0 =>
       Len(combinedAnalysisResult)
         = (IF variant = 2 THEN Len(invocations)
            ELSE IF invocations = <<>> THEN 0 ELSE 1)

C28_Witness ==
  /\ variant = 2
  /\ inFlight = 1
  /\ Len(invocations) = 2
  /\ combinedAnalysisResult[1].failed

\* the scenario of C30: R1, one security finding, changes committed but no PR
\* asked for, the execution returned, the tree changed, every command succeeded
C30_Scenario ==
  /\ pc = "done"
  /\ reviewAssessmentId = "R1"
  /\ findings = <<Finding("security", 1)>>
  /\ ~dryRun /\ autoCommit /\ ~createPR
  /\ treeChanged
  /\ \A i \in 1..Len(combinedAnalysisResult) : ~combinedAnalysisResult[i].failed
  /\ \A i \in CmdIndices : cmds[i].ok

\* C30: in that scenario exactly one invocation is made, for the security
\* finding; a branch named "fix/review-R1-..." is created; the commit message
\* names R1; no PR creation is attempted and no PR URL is set; success = TRUE.
C30_SingleSecurityFinding ==
  C30_Scenario =>
    /\ Len(invocations) = 1
    /\ invocations[1].findings = findings
    /\ invocations[1].category \in {"security", None}
    /\ variant = 2 => invocations[1].category = "security"
    /\ Succeeded("checkout")
    /\ \A i \in CmdIndices :
         cmds[i].step = "checkout" =>
           /\ cmds[i].arg = branchName
           /\ SubSeq(branchName, 1, 3) = <<"fix/review-", "R1", "-">>
    /\ Succeeded("commit")
    /\ \A i \in CmdIndices :
         cmds[i].step = "commit" => cmds[i].arg.reviewId = "R1"
    /\ ~Issued("pr")
    /\ prUrl = None
    /\ FinalSummary.success = TRUE

C30_Witness == C30_Scenario /\ variant = 2 /\ Succeeded("push")

\* ------------------------------------ claims on prCreationWorkflowTool
\* the value prCreationWorkflowTool.execute returned
WrapperReturned == wrapperOutput[1]

\* C24: no observer of the progress stream holds the run back: once the
\* run's stream is handed to the writer, be it absent, slow or stalled, the
\* call goes on to return its summary.
C24_ObserverNeverBlocks == (wrapperPc = "piping") ~> (wrapperPc = "returned")

\* C25: every run started through the tool ends with a returned summary,
\* whatever fails inside Load, the dispatcher or the delivery stage, and
\* nothing is raised to the caller.
C25_RunReturnsSummary ==
  <>(wrapperPc = "returned" /\ Len(wrapperOutput) = 1)

\* C29: a run requested with the review id only behaves as dryRun = TRUE,
\* autoCommit = FALSE, createPR = FALSE and executes no git or gh command.
C29_OmittedOptionsAreSafe ==
  optionsOmitted =>
    /\ dryRun /\ ~autoCommit /\ ~createPR
    /\ cmds = <<>>

\* C39: prCreationWorkflowTool reports success only for a run whose own
\* summary has success set.
C39_WrapperSuccessIsRunSuccess ==
  (wrapperPc = "returned" /\ WrapperReturned.success) =>
    (Len(output) = 1 /\ FinalSummary.success)

\* ------------------------------------ claims on claudeCodeStreamingTool
\* the value execute returned
Returned == toolReturn[1]

\* the last event handed to safeWrite
LastEmitted == emitted[Len(emitted)]

\* the call ended in the catch block: its last event carries a thrown message
TransportThrew ==
  /\ toolPc \in {"returned", "thrown"}
  /\ emitted # <<>>
  /\ LastEmitted.type = "error"
  /\ LastEmitted.error \in {v.message : v \in ThrownValues}

\* the call ended after the loop, the stream being exhausted
ReturnedAfterLoop ==
  /\ toolPc = "returned"
  /\ queryStarted
  /\ ~TransportThrew

\* C16: the invoker never raises: when the transport throws during the
\* iteration, whatever its message (rate limit, quota, authentication), the
\* invoker has emitted an error event and returns a result with
\* hasErrors = TRUE and a message.
C16_TransportThrowIsReturned ==
  /\ toolPc # "thrown"
  /\ TransportThrew =>
       /\ toolPc = "returned"
       /\ Returned.metadata.hasErrors
       /\ Returned.result # <<>>

\* C17: without the credential no agent session is opened, nothing is
\* raised, and the invoker returns hasErrors = TRUE, turnsUsed = 0, an empty
\* toolsCalled and the text naming the missing credential.
C17_MissingCredential ==
  (~apiKeySet /\ toolPc \notin {"idle", "entry"}) =>
    /\ ~queryStarted
    /\ consumed = <<>>
    /\ toolPc = "returned"
    /\ Returned.metadata.hasErrors
    /\ Returned.metadata.turnsUsed = 0
    /\ Returned.metadata.toolsCalled = <<>>
    /\ Includes(Returned.result, "Error: ")
    /\ \E i \in 1..Len(Returned.result) : Returned.result[i] \in
         {MissingKeyMsg[j] : j \in 1..Len(MissingKeyMsg)}

C17_Witness == ~apiKeySet /\ toolPc = "returned" /\ Len(emitted) = 1

\* the message that ended the stream
LastConsumed == consumed[Len(consumed)]

FailedTerminal ==
  /\ consumed # <<>>
  /\ LastConsumed.type = "result"
  /\ LastConsumed.subtype # "success"

\* C18: when the stream ends with a result message whose subtype is not
\* success, the invoker has emitted an error event for it and returns
\* hasErrors = TRUE with the text "Execution failed: <subtype>" and nothing
\* else, whatever text the earlier messages had accumulated.
C18_FailedResult ==
  /\ (toolPc = "iterating" /\ FailedTerminal) =>
       /\ result = <<"Execution failed: ", LastConsumed.subtype>>
       /\ hasErrors
       /\ LastEmitted.type = "error"
       /\ LastEmitted.error = <<"Execution failed: ", LastConsumed.subtype>>
  /\ (ReturnedAfterLoop /\ FailedTerminal) =>
       /\ Returned.result = <<"Execution failed: ", LastConsumed.subtype>>
       /\ Returned.metadata.hasErrors
       /\ LastEmitted.type = "error"
       /\ LastEmitted.error = <<"Execution failed: ", LastConsumed.subtype>>

C18_Witness ==
  /\ ReturnedAfterLoop
  /\ FailedTerminal
  /\ Len(consumed) > 1
  /\ consumed[1].type = "assistant"
  /\ consumed[1].content = <<TextBlock(<<"partial">>)>>

\* positions of the result messages taken so far
ResultIndices == {k \in 1..Len(consumed) : consumed[k].type = "result"}

\* the first result message of the stream
TerminalIndex ==
  CHOOSE k \in ResultIndices : \A j \in ResultIndices : k <= j

\* C19: when the agent reports terminal success, session_complete is
\* emitted, the invoker returns hasErrors = FALSE and the agent's final answer
\* as the result text, and no message delivered after the terminal one changes
\* the result or emits an event.
C19_SuccessResult ==
  (/\ ReturnedAfterLoop
   /\ ResultIndices # {}
   /\ consumed[TerminalIndex].subtype = "success") =>
    /\ LastEmitted.type = "session_complete"
    /\ ~Returned.metadata.hasErrors
    /\ Returned.result = consumed[TerminalIndex].result

\* names of the tool_use blocks of one assistant content, in order
RECURSIVE ToolUseNames(_)
ToolUseNames(contents) ==
  IF contents = <<>>
  THEN <<>>
  ELSE (IF Head(contents).type = "tool_use"
        THEN <<Head(contents).name>>
        ELSE <<>>) \o ToolUseNames(Tail(contents))

\* names of all tool invocation requests of a message sequence, in order
RECURSIVE RequestedTools(_)
RequestedTools(messages) ==
  IF messages = <<>>
  THEN <<>>
  ELSE (IF Head(messages).type = "assistant"
        THEN ToolUseNames(Head(messages).content)
        ELSE <<>>) \o RequestedTools(Tail(messages))

\* first occurrences of a sequence, in order
RECURSIVE FirstOccurrences(_)
FirstOccurrences(seq) ==
  IF seq = <<>>
  THEN <<>>
  ELSE <<Head(seq)>>
       \o FirstOccurrences(SelectSeq(Tail(seq), LAMBDA x : x # Head(seq)))

\* C20: after any message sequence toolsCalled has no duplicate and is
\* exactly the names of the tools the agent requested to invoke, in order of
\* first occurrence.
C20_ToolsCalledAreRequested ==
  /\ toolPc \in {"iterating", "returned"} =>
       /\ toolsCalled = FirstOccurrences(RequestedTools(consumed))
       /\ \A i, j \in 1..Len(toolsCalled) :
            toolsCalled[i] = toolsCalled[j] => i = j
  /\ ReturnedAfterLoop =>
       Returned.metadata.toolsCalled
         = FirstOccurrences(RequestedTools(consumed))

\* message types the switch has a case for
RecognizedTypes == {"result", "assistant", "user", "system"}

\* the step takes a message of a type the switch has no case for
UnrecognizedStep ==
  /\ consumed' # consumed
  /\ consumed'[Len(consumed')].type \notin RecognizedTypes

\* the step appends exactly one thinking event
OneThinkingEvent ==
  /\ Len(emitted') = Len(emitted) + 1
  /\ SubSeq(emitted', 1, Len(emitted)) = emitted
  /\ emitted'[Len(emitted')].type = "thinking"
  /\ streamingEventsEmitted' = streamingEventsEmitted + 1

\* the step neither ends the call nor touches what the call will return
NotFatal ==
  /\ toolPc' = "iterating"
  /\ UNCHANGED <<toolLocals, toolReturn, toolThrown>>

\* C21 (as stated): every message of an unrecognized kind produces one
\* thinking event and is not fatal, whatever the options.
C21_UnrecognizedAlwaysThinking ==
  [][UnrecognizedStep => (OneThinkingEvent /\ NotFatal)]_vars

\* C21 (amended): a message of an unrecognized kind is never fatal and leaves
\* result, turnsUsed, toolsCalled and hasErrors as they were; it produces one
\* thinking event when options.debug is set and no event otherwise.
C21_UnrecognizedThinkingUnderDebug ==
  [][UnrecognizedStep =>
       /\ NotFatal
       /\ IF debug
          THEN OneThinkingEvent
          ELSE UNCHANGED <<emitted, streamingEventsEmitted>>]_vars

C21_Witness ==
  /\ toolPc = "returned"
  /\ ~debug
  /\ Len(consumed) = 2
  /\ consumed[1].type = "stream_event"
  /\ consumed[2].type = "assistant"
  /\ Len(emitted) = 2

\* number of starting events emitted so far
StartingEvents(events) ==
  Cardinality({i \in 1..Len(events) : events[i].type = "starting"})

\* the step takes the agent-initialization message
InitMessageStep ==
  /\ consumed' # consumed
  /\ consumed'[Len(consumed')].type = "system"
  /\ consumed'[Len(consumed')].subtype = "init"

\* C22 (as stated): the agent-initialization message produces a starting
\* event, and a call with the credential present emits exactly one starting
\* event.
C22_InitMessageProducesStarting ==
  [][/\ InitMessageStep =>
          /\ Len(emitted') = Len(emitted) + 1
          /\ emitted'[Len(emitted')].type = "starting"
     /\ (apiKeySet /\ toolPc' \in {"iterating", "returned", "thrown"}) =>
          StartingEvents(emitted') = 1]_vars

\* C22 (amended): with the credential present exactly one starting event is
\* emitted; it is the first event, emitted before the agent session delivers
\* anything, and carries the instruction.  The agent-initialization message
\* produces no starting event.
C22_OneStartingEventAtEntry ==
  (apiKeySet /\ toolPc \in {"iterating", "returned", "thrown"}) =>
    /\ emitted[1] = [type |-> "starting", prompt |-> "prompt"]
    /\ StartingEvents(emitted) = 1

C22_Witness ==
  /\ apiKeySet
  /\ toolPc = "returned"
  /\ \E k \in 1..Len(consumed) :
       /\ consumed[k].type = "system"
       /\ consumed[k].subtype = "init"
       /\ "tools" \in DOMAIN consumed[k]

\* C23: the streamingEventsEmitted of the returned result equals the number
\* of events published during the call, and none of them is kept for an
\* observer attaching later.
C23_CounterEqualsPublished ==
  toolPc = "returned" =>
    /\ Returned.metadata.streamingEventsEmitted = Len(emitted)
    /\ retained = <<>>

C23_Witness ==
  /\ toolPc = "returned"
  /\ Len(emitted) >= 3
  /\ Returned.metadata.streamingEventsEmitted = 3

\* events of type error among those emitted
ErrorEvents == {i \in 1..Len(emitted) : emitted[i].type = "error"}

\* C38: a returned result has hasErrors set exactly when an error event was
\* emitted during the call, and its streamingEventsEmitted counts every
\* event emitted before the return.
C38_HasErrorsIffErrorEvent ==
  toolPc = "returned" =>
    /\ Returned.metadata.hasErrors <=> (ErrorEvents # {})
    /\ Returned.metadata.streamingEventsEmitted = Len(emitted)

C38_Witness ==
  /\ toolPc = "returned"
  /\ apiKeySet
  /\ Returned.metadata.hasErrors
  /\ Cardinality(ErrorEvents) = 1
  /\ Len(emitted) = 3
  /\ Returned.metadata.turnsUsed = 0
  /\ Returned.result[1] = "Error executing Claude Code: "

\* ------------------------------------ claims on single stages and cases
\* the Load stage ended in its catch block
LoadStageFailed == pc # "load" /\ ~loadSuccess

\* C31: after a failed Load stage the run goes on with empty findings: no
\* execution is started, no command is run, the run is not aborted, and the
\* summary it returns names the requested review id.
C31_LoadFailureIsNotFatal ==
  LoadStageFailed =>
    /\ findings = <<>>
    /\ invocations = <<>>
    /\ cmds = <<>>
    /\ pc \in {"analysis", "dispatch", "finalize", "summary", "done"}
    /\ pc = "done" =>
         /\ Len(output) = 1
         /\ FinalSummary.reviewAssessmentId = reviewAssessmentId

C31_Witness == LoadStageFailed /\ loaderCalls = 1 /\ pc = "done"
\* errors recorded for a pull request that could not be created
PrErrors == SelectSeq(errors, LAMBDA e : e = PrCliFailedMsg)

\* the git block is over
DeliveryOver == pc \in {"summary", "done"}

\* C32: with createPR set and the delivery steps up to the push succeeded,
\* the stage has called the hosting collaborator exactly once when it ends,
\* and has either recorded the URL or appended one error; without createPR
\* the collaborator is never called and no pull-request error is recorded.
C32_PrAttemptedOnce ==
  /\ (DeliveryOver /\ createPR /\ Succeeded("push")) =>
       /\ TimesIssued("pr") = 1
       /\ IF Succeeded("pr") /\ prUrl # None
            THEN Len(PrErrors) = 0
            ELSE prUrl = None /\ Len(PrErrors) = 1
  /\ ~createPR => (TimesIssued("pr") = 0 /\ Len(PrErrors) = 0)
\* `git add . --ignore-errors` threw after `git add -u` had succeeded
AdditiveStagingFailed == Succeeded("add_u") /\ Failed("add_all")

\* C33: when the additive staging command fails after the tracked-files one
\* succeeded, the fallback staging command runs and no error is recorded for
\* it; the commit follows a successful fallback, and the stage ends without
\* a commit, with one error, only when the fallback itself failed.
C33_StagingFallsBack ==
  AdditiveStagingFailed =>
    /\ pc = "add_fallback" => errors = <<>>
    /\ pc # "add_fallback" => TimesIssued("add_fallback") = 1
    /\ Succeeded("add_fallback") =>
         /\ pc = "commit" => errors = <<>>
         /\ pc # "commit" => Issued("commit")
    /\ Failed("add_fallback") =>
         /\ errors = <<GitFailedMsg>>
         /\ ~Issued("commit")
         /\ DeliveryOver
    /\ (DeliveryOver /\ ~Issued("commit")) => Failed("add_fallback")

C33_Witness ==
  /\ AdditiveStagingFailed
  /\ Succeeded("add_fallback")
  /\ Succeeded("commit")
  /\ errors = <<>>
  /\ pc = "done"

C33_WitnessFallbackFails ==
  AdditiveStagingFailed /\ Failed("add_fallback") /\ pc = "done"
\* the commit message of the `git commit` the stage has run
CommitCommands == {i \in CmdIndices : cmds[i].step = "commit"}

\* C34: the commit message names the review id, lists the first min(n, 5)
\* fixes of the fix list in order, and has a remainder line exactly when
\* n > 5, which then gives the count n - 5.
C34_CommitMessageListsFive ==
  \A i \in CommitCommands :
    LET msg == cmds[i].arg
        n == Len(allFixesProposed)
    IN /\ msg.reviewId = reviewAssessmentId
       /\ Len(msg.listed) = (IF n < 5 THEN n ELSE 5)
       /\ \A j \in 1..Len(msg.listed) : msg.listed[j] = allFixesProposed[j]
       /\ (msg.additionalFixes # <<>>) <=> (n > 5)
       /\ n > 5 => msg.additionalFixes = <<"... and ", n - 5, " more fixes">>

C34_Witness ==
  \E i \in CommitCommands :
    /\ Len(allFixesProposed) = 7
    /\ Len(cmds[i].arg.listed) = 5
    /\ cmds[i].arg.additionalFixes[2] = 2
\* prompt texts that tell the agent not to modify files
ForbidsModification ==
  {"IMPORTANT: This is a DRY RUN - provide recommendations and analysis only, do not modify any files.",
   "ANALYZE codebase and provide detailed recommendations - do not modify files."}

\* C35: in a dry run every execution is started in permission mode "plan"
\* with a prompt that tells the agent not to modify files; an execution in
\* mode "acceptEdits" is started only when dryRun is false.
C35_DryRunInvokesPlanOnly ==
  \A i \in 1..Len(invocations) :
    /\ dryRun =>
         /\ invocations[i].permissionMode = "plan"
         /\ invocations[i].instruction \in ForbidsModification
    /\ invocations[i].permissionMode = "acceptEdits" => ~dryRun

C35_Witness ==
  /\ dryRun
  /\ Len(invocations) = 2
  /\ invocations[2].permissionMode = "plan"
  /\ pc = "invoking"
\* a dry run of the second definition for the demo review id
DemoDryRun ==
  /\ reviewAssessmentId = "sse-streaming-test-demo"
  /\ variant = 2
  /\ dryRun

AnalysisOver == pc \in {"finalize", "summary", "done"}

CategoriesOf(fs) == [i \in 1..Len(fs) |-> fs[i].category]

InvokedCategories == [i \in 1..Len(invocations) |-> invocations[i].category]

\* the loader is not called for the demo id and Load succeeds with the five
\* findings; the dry run makes the three executions in the order security,
\* performance, testing, runs no command and ends with success
DemoRunShape ==
  /\ (reviewAssessmentId = "sse-streaming-test-demo" /\ pc # "load") =>
       /\ loaderCalls = 0
       /\ loadSuccess
       /\ CategoriesOf(findings) =
            <<"security", "performance", "security", "performance", "testing">>
  /\ DemoDryRun =>
       /\ cmds = <<>>
       /\ AnalysisOver =>
            InvokedCategories = <<"security", "performance", "testing">>
       /\ pc = "done" => FinalSummary.success

\* C36 as stated: the demo dry run always proposes five fixes.
C36_DemoRunProposesFiveFixes ==
  /\ DemoRunShape
  /\ (DemoDryRun /\ AnalysisOver) => Len(allFixesProposed) = 5

\* C36: the demo dry run has the stated shape, and it proposes five fixes
\* exactly when none of its three executions threw.
C36_DemoRunFixesOfReturned ==
  /\ DemoRunShape
  /\ (DemoDryRun /\ AnalysisOver) =>
       ((Len(allFixesProposed) = 5) <=>
          \A i \in 1..Len(combinedAnalysisResult) :
            ~combinedAnalysisResult[i].failed)

C36_Witness ==
  /\ DemoDryRun
  /\ pc = "done"
  /\ Len(invocations) = 3
  /\ Len(allFixesProposed) = 5
  /\ FinalSummary.success
\* C37: the claudeCodeExecutions figure of the returned summary is the
\* number of claudeCodeTool.execute calls the run made.
C37_ReportedExecutionsAreMade ==
  pc = "done" => FinalSummary.summary.claudeCodeExecutions = Len(invocations)
\* ------------------------------------------ claims on GuardrailStore
\* every add, update and delete started so far has returned
AllStoreOpsCompleted ==
  \A k \in 1..Len(storeOps) : storeOps[k].stage = "done"

\* C40: with autoSave set, once every started add, update and delete has
\* returned, the guardrails file holds what the Map holds.
C40_FileMatchesStoreWhenQuiet ==
  (autoSave /\ AllStoreOpsCompleted) => fileContent = guardrails

====
